---- MODULE Spec2Model ----
(***************************************************************************)
(* LLMPrompt.py: the Sublime Text plugin that composes an LLM prompt from  *)
(* the current selection and heuristically related files.                  *)
(*                                                                         *)
(* A text is a tuple of one-character strings.  A file's text is held as   *)
(* [body, pad]: `body` followed by `pad` space characters (a run-length    *)
(* form of trailing blanks, so that a one-kilobyte file stays small).      *)
(* Trailing blanks take part in len(txt) and in nothing else: no pattern   *)
(* of the plugin ends in a match on blanks alone.                          *)
(***************************************************************************)
EXTENDS Integers, Sequences, FiniteSets, TLC

\* ------------------------------------------------------------------------
\*  Characters and regular-expression primitives (Python `re`, ASCII text)
\* ------------------------------------------------------------------------

Lower ==
    {"a","b","c","d","e","f","g","h","i","j","k","l","m",
     "n","o","p","q","r","s","t","u","v","w","x","y","z"}

Upper ==
    {"A","B","C","D","E","F","G","H","I","J","K","L","M",
     "N","O","P","Q","R","S","T","U","V","W","X","Y","Z"}

Digit == {"0","1","2","3","4","5","6","7","8","9"}

\* [A-Za-z_]
IdentStartChars == Lower \cup Upper \cup {"_"}
IsIdentStart(c) == c \in IdentStartChars

\* \w  and  [A-Za-z0-9_]
WordChars == Lower \cup Upper \cup Digit \cup {"_"}
IsWord(c) == c \in WordChars

\* \s
SpaceChars == {" ", "\t", "\n", "\r", "\f"}
IsSpace(c) == c \in SpaceChars

WordAt(t, i) == i \in 1..Len(t) /\ IsWord(t[i])

\* \b in the gap after the first k characters of t (k in 0..Len(t))
Boundary(t, k) == WordAt(t, k) # WordAt(t, k + 1)

\* the literal w starts at position i of t
Lit(t, i, w) ==
    /\ i + Len(w) - 1 <= Len(t)
    /\ \A k \in 1..Len(w) : t[i + k - 1] = w[k]

\* \s* from position i: the position after the blanks
SkipSpace(t, i) ==
    CHOOSE j \in i..(Len(t) + 1) :
        /\ \A k \in i..(j - 1) : IsSpace(t[k])
        /\ (j = Len(t) + 1 \/ ~IsSpace(t[j]))

\* \w* from position i: the position after the word characters
SkipWord(t, i) ==
    CHOOSE j \in i..(Len(t) + 1) :
        /\ \A k \in i..(j - 1) : IsWord(t[k])
        /\ (j = Len(t) + 1 \/ ~IsWord(t[j]))

\* [^c]* from position i: the position of the next c, or Len(t) + 1
SkipNot(t, i, c) ==
    CHOOSE j \in i..(Len(t) + 1) :
        /\ \A k \in i..(j - 1) : t[k] # c
        /\ (j = Len(t) + 1 \/ t[j] = c)

\* len(re.findall(rf"\b{re.escape(ident)}\b", txt)); the empty identifier
\* gives the pattern \b\b, which matches once at every word boundary
CountMatches(ident, t) ==
    IF ident = << >>
    THEN Cardinality({k \in 0..Len(t) : Boundary(t, k)})
    ELSE Cardinality({i \in 1..Len(t) :
            /\ Lit(t, i, ident)
            /\ Boundary(t, i - 1)
            /\ Boundary(t, i + Len(ident) - 1)})

\* re.search(rf"\b{re.escape(ident)}\b", txt) is not None
Found(ident, t) == CountMatches(ident, t) > 0

\* ------------------------------------------------------------------------
\*  _extract_identifiers
\* ------------------------------------------------------------------------

blacklist ==
    {<<"i","f">>,
     <<"f","o","r">>,
     <<"w","h","i","l","e">>,
     <<"s","w","i","t","c","h">>,
     <<"c","a","s","e">>,
     <<"e","l","s","e">>,
     <<"r","e","t","u","r","n">>,
     <<"b","r","e","a","k">>,
     <<"c","o","n","t","i","n","u","e">>,
     <<"t","r","y">>,
     <<"e","x","c","e","p","t">>,
     <<"c","a","t","c","h">>,
     <<"f","i","n","a","l","l","y">>,
     <<"d","e","f">>,
     <<"c","l","a","s","s">>,
     <<"s","t","r","u","c","t">>,
     <<"e","n","u","m">>,
     <<"n","a","m","e","s","p","a","c","e">>,
     <<"p","u","b","l","i","c">>,
     <<"p","r","i","v","a","t","e">>,
     <<"p","r","o","t","e","c","t","e","d">>,
     <<"i","m","p","o","r","t">>,
     <<"f","r","o","m">>,
     <<"p","a","c","k","a","g","e">>,
     <<"d","o">>,
     <<"n","e","w">>,
     <<"d","e","l","e","t","e">>,
     <<"t","h","i","s">>}

\* str.isdigit()
IsDigits(t) == Len(t) > 0 /\ \A i \in 1..Len(t) : t[i] \in Digit

\* set(re.findall(r"\b[A-Za-z_][A-Za-z0-9_]*\b", code))
Tokens(code) ==
    {SubSeq(code, i, SkipWord(code, i) - 1) :
        i \in {k \in 1..Len(code) :
                 /\ Boundary(code, k - 1)
                 /\ IsIdentStart(code[k])
                 /\ Boundary(code, SkipWord(code, k) - 1)}}

extract_identifiers(code) ==
    {t \in Tokens(code) : t \notin blacklist /\ ~IsDigits(t)}

\* ------------------------------------------------------------------------
\*  _syntax_from_extension
\* ------------------------------------------------------------------------

\* str.lower() on the extensions that occur
LowerExt(ext) ==
    CASE ext = ".PY" -> ".py"
      [] ext = ".JS" -> ".js"
      [] OTHER -> ext

syntax_from_extension(path) ==
    LET e == LowerExt(path.ext) IN
    CASE e = ".py" -> "python"
      [] e = ".js" -> "javascript"
      [] e = ".ts" -> "typescript"
      [] e = ".jsx" -> "javascript"
      [] e = ".tsx" -> "typescript"
      [] e = ".java" -> "java"
      [] e = ".go" -> "go"
      [] e = ".cpp" -> "cpp"
      [] e = ".cc" -> "cpp"
      [] e = ".c" -> "c"
      [] e = ".h" -> "cpp"
      [] e = ".cs" -> "csharp"
      [] e = ".rb" -> "ruby"
      [] e = ".php" -> "php"
      [] e = ".html" -> "html"
      [] e = ".css" -> "css"
      [] e = ".json" -> "json"
      [] e = ".sh" -> "bash"
      [] OTHER -> ""

\* ------------------------------------------------------------------------
\*  _extract_definitions
\* ------------------------------------------------------------------------

kw_class == <<"c","l","a","s","s">>
kw_def == <<"d","e","f">>
kw_function == <<"f","u","n","c","t","i","o","n">>
kw_arrow == <<"-",">">>

\* A match of a pattern: `end` is the position after it (0: no match),
\* `name` is group 1, `args` is group 2.
NoMatch == [end |-> 0, name |-> << >>, args |-> << >>]

\* the first alternative if it matches, else the second
OrElse(m1, m2) == IF m1.end > 0 THEN m1 ELSE m2

\* (\w+) from position b to position c
NameAt(t, b, c) ==
    IF c > b THEN [end |-> c, name |-> SubSeq(t, b, c - 1), args |-> << >>]
    ELSE NoMatch

\* \s+(\w+) from position a, the blanks ending at position b
SpaceName(t, a, b) == IF b > a THEN NameAt(t, b, SkipWord(t, b)) ELSE NoMatch

\* class\s+(\w+) with "class" at position i
ClassAt(t, i) ==
    IF Lit(t, i, kw_class) THEN SpaceName(t, i + 5, SkipSpace(t, i + 5))
    ELSE NoMatch

\* ([^)]*)\) from position d + 1, the next ")" at position e
ArgsAt(t, m, d, e) ==
    IF e <= Len(t)
    THEN [end |-> e + 1, name |-> m.name, args |-> SubSeq(t, d + 1, e - 1)]
    ELSE NoMatch

\* \(([^)]*)\) at position d, after the name m
ParenAt(t, m, d) ==
    IF d <= Len(t) /\ t[d] = "(" THEN ArgsAt(t, m, d, SkipNot(t, d + 1, ")"))
    ELSE NoMatch

\* \s*\(([^)]*)\) after the name m
AfterName(t, m) ==
    IF m.end > 0 THEN ParenAt(t, m, SkipSpace(t, m.end)) ELSE NoMatch

\* (\w+)\s*\(([^)]*)\) with the name at position b
CallAt(t, b) == AfterName(t, NameAt(t, b, SkipWord(t, b)))

\* re.compile(r"^\s*class\s+(\w+)"): no re.M, so ^ is the start of the text
PyClassMatch(t, pos) ==
    IF pos = 1 THEN ClassAt(t, SkipSpace(t, 1)) ELSE NoMatch

\* re.compile(r"\bclass\s+(\w+)")
AnyClassMatch(t, pos) ==
    IF Boundary(t, pos - 1) THEN ClassAt(t, pos) ELSE NoMatch

\* ([^:]+) ending before position h: the group (?:\s*->\s*([^:]+))? matched
\* if it took a character after the arrow at position f, and is skipped if not
ReturnType(m, f, h) == IF h > f + 2 THEN [m EXCEPT !.end = h] ELSE m

\* (?:\s*->\s*([^:]+))? after the match m, the arrow looked for at position f
ArrowAt(t, m, f) ==
    IF Lit(t, f, kw_arrow)
    THEN ReturnType(m, f, SkipNot(t, SkipSpace(t, f + 2), ":"))
    ELSE m

\* (?:\s*->\s*([^:]+))? after the match m
AfterCall(t, m) ==
    IF m.end > 0 THEN ArrowAt(t, m, SkipSpace(t, m.end)) ELSE NoMatch

\* \s+(\w+)\s*\(([^)]*)\)(?:\s*->\s*([^:]+))? from position a, the blanks
\* ending at position b
DefName(t, a, b) == IF b > a THEN AfterCall(t, CallAt(t, b)) ELSE NoMatch

\* def\s+(\w+)... with "def" looked for at position a
DefAt(t, a) ==
    IF Lit(t, a, kw_def) THEN DefName(t, a + 3, SkipSpace(t, a + 3))
    ELSE NoMatch

\* re.compile(r"^\s*def\s+(\w+)\s*\(([^)]*)\)(?:\s*->\s*([^:]+))?", re.M)
PyFuncMatch(t, pos) ==
    IF pos = 1 \/ t[pos - 1] = "\n" THEN DefAt(t, SkipSpace(t, pos))
    ELSE NoMatch

\* \s+(\w+)\s*\(([^)]*)\) from position a, the blanks ending at position b
SpaceCall(t, a, b) == IF b > a THEN CallAt(t, b) ELSE NoMatch

\* function\s+(\w+)\s*\(([^)]*)\) from position s
FunctionAt(t, s) ==
    IF Lit(t, s, kw_function) THEN SpaceCall(t, s + 8, SkipSpace(t, s + 8))
    ELSE NoMatch

\* (?:function\s+)?(\w+)\s*\(([^)]*)\) from position s
BraceRest(t, s) == OrElse(FunctionAt(t, s), CallAt(t, s))

\* ^ at position pos, then the rest
BraceAtStart(t, pos) == IF pos = 1 THEN BraceRest(t, 1) ELSE NoMatch

\* \s at position pos, then the rest
BraceAfterSpace(t, pos) ==
    IF IsSpace(t[pos]) THEN BraceRest(t, pos + 1) ELSE NoMatch

\* re.compile(r"(?:^|\s)(?:function\s+)?(\w+)\s*\(([^)]*)\)")
BraceFuncMatch(t, pos) == OrElse(BraceAtStart(t, pos), BraceAfterSpace(t, pos))

\* re.compile(r"\b(\w+)\s*\(([^)]*)\)")
GenericFuncMatch(t, pos) ==
    IF Boundary(t, pos - 1) THEN CallAt(t, pos) ELSE NoMatch

ClassMatch(language, t, pos) ==
    IF language \in {"python", "ruby"} THEN PyClassMatch(t, pos)
    ELSE AnyClassMatch(t, pos)

FuncMatch(language, t, pos) ==
    IF language \in {"python", "ruby"} THEN PyFuncMatch(t, pos)
    ELSE IF language \in {"javascript", "typescript", "php", "java", "csharp"}
    THEN BraceFuncMatch(t, pos)
    ELSE GenericFuncMatch(t, pos)

\* class_pat.finditer(text): the matches left to right, none overlapping
RECURSIVE ClassIter(_, _, _)
RECURSIVE ClassStep(_, _, _, _)
ClassStep(language, t, pos, m) ==
    IF m.end = 0 THEN ClassIter(language, t, pos + 1)
    ELSE <<m>> \o ClassIter(language, t, m.end)

ClassIter(language, t, pos) ==
    IF pos > Len(t) THEN << >>
    ELSE ClassStep(language, t, pos, ClassMatch(language, t, pos))

\* func_pat.finditer(text)
RECURSIVE FuncIter(_, _, _)
RECURSIVE FuncStep(_, _, _, _)
FuncStep(language, t, pos, m) ==
    IF m.end = 0 THEN FuncIter(language, t, pos + 1)
    ELSE <<m>> \o FuncIter(language, t, m.end)

FuncIter(language, t, pos) ==
    IF pos > Len(t) THEN << >>
    ELSE FuncStep(language, t, pos, FuncMatch(language, t, pos))

\* the keys classes.setdefault(m.group(1), []) leaves, in insertion order
RECURSIVE ClassKeys(_, _)
ClassKeys(ms, seen) ==
    IF ms = << >> THEN << >>
    ELSE IF Head(ms).name \in seen THEN ClassKeys(Tail(ms), seen)
    ELSE <<Head(ms).name>> \o ClassKeys(Tail(ms), seen \cup {Head(ms).name})

SeqRange(s) == {s[i] : i \in 1..Len(s)}

\* the list under the key "": (name, f"({args})") of every function match
\* whose name is no class key
RECURSIVE FreeFuncs(_, _)
FreeFuncs(ms, classNames) ==
    IF ms = << >> THEN << >>
    ELSE IF Head(ms).name \in classNames THEN FreeFuncs(Tail(ms), classNames)
    ELSE <<[name |-> Head(ms).name,
            sig |-> <<"(">> \o Head(ms).args \o <<")">>]>>
         \o FreeFuncs(Tail(ms), classNames)

\* the class keys found by the first loop of _extract_definitions
class_keys(text, language) == ClassKeys(ClassIter(language, text, 1), {})

\* the second loop of _extract_definitions, the class keys being `keys`
with_funcs(text, language, keys) ==
    [classes |-> keys,
     funcs |-> FreeFuncs(FuncIter(language, text, 1), SeqRange(keys))]

\* The returned dict: `classes` are the class keys in insertion order (each
\* with the empty list), `funcs` is the list under the key "", which is a
\* key of the dict iff the list is not empty.
extract_definitions(text, language) ==
    with_funcs(text, language, class_keys(text, language))

\* ------------------------------------------------------------------------
\*  Paths (os.path): a path is [dir, name, ext], dir a tuple of components
\* ------------------------------------------------------------------------

\* os.path.dirname
dirname(path) == path.dir

RECURSIVE CommonPrefix(_, _)
CommonPrefix(a, b) ==
    IF a = << >> \/ b = << >> \/ Head(a) # Head(b) THEN 0
    ELSE 1 + CommonPrefix(Tail(a), Tail(b))

\* os.path.relpath(path, root): `up` times "..", then the rest of the path
relpath(path, root) ==
    LET c == CommonPrefix(path.dir, root)
    IN  [up |-> Len(root) - c,
         dir |-> SubSeq(path.dir, c + 1, Len(path.dir)),
         name |-> path.name, ext |-> path.ext]

NoRel == [up |-> 0, dir |-> << >>, name |-> "", ext |-> ""]

\* ------------------------------------------------------------------------
\*  The host: file system, symbol index, window, views
\* ------------------------------------------------------------------------

w_foo == <<"f","o","o">>
w_bar == <<"b","a","r">>
w_dd == <<"d","d">>

PX == [dir |-> <<"proj", "a">>, name |-> "x", ext |-> ".py"]
PY == [dir |-> <<"proj", "b">>, name |-> "y", ext |-> ".py"]
PY2 == [dir |-> <<"proj", "c">>, name |-> "y", ext |-> ".c"]
PK == [dir |-> <<"proj", "b">>, name |-> "k", ext |-> ".py"]
PM == [dir |-> <<"proj", "a">>, name |-> "m", ext |-> ".js"]
PZ == [dir |-> <<"lib">>, name |-> "z", ext |-> ".PY"]
PD == [dir |-> <<"proj", "b">>, name |-> "dd", ext |-> ""]
PL == [dir |-> <<"proj", "a">>, name |-> "l", ext |-> ".py"]

Paths == {PX, PY, PY2, PK, PM, PZ, PD, PL}

\* the order in which paths are listed when an order is needed
PathList == <<PL, PX, PY, PY2, PK, PM, PZ, PD>>

\* kind: "file" a readable regular file, "locked" a regular file whose open()
\* raises, "dir" a directory
InitFs ==
    (PX :> [kind |-> "file", txt |-> [body |-> <<"f","o","o"," ","f","o","o"," ","f","o","o"," ","b","a","r">>, pad |-> 1009]]) @@
    (PY :> [kind |-> "file", txt |-> [body |-> <<"f","o","o","(","f","o","o",")">>, pad |-> 1016]]) @@
    (PY2 :> [kind |-> "file", txt |-> [body |-> <<"f","o","o","(","f","o","o",")">>, pad |-> 40]]) @@
    (PK :> [kind |-> "file", txt |-> [body |-> <<"x","\n","c","l","a","s","s"," ","b","a","r",":","\n"," ","d","e","f"," ","f","o","o","(","s",")",":">>, pad |-> 0]]) @@
    (PM :> [kind |-> "file", txt |-> [body |-> <<"c","l","a","s","s"," ","b","a","r"," ","{"," ","f","o","o","(","x",")"," ","}">>, pad |-> 0]]) @@
    (PZ :> [kind |-> "file", txt |-> [body |-> <<"c","l","a","s","s"," ","b","a","r",":","\n","d","e","f"," ","f","o","o","(","a",")"," ","-",">"," ","b",":">>, pad |-> 0]]) @@
    (PD :> [kind |-> "dir", txt |-> [body |-> << >>, pad |-> 0]]) @@
    (PL :> [kind |-> "locked", txt |-> [body |-> <<"f","o","o"," ","b","a","r"," ","d","d">>, pad |-> 0]])

\* window.lookup_symbol_in_index(ident): the paths the host's index gives
lookup_symbol_in_index(ident) ==
    CASE ident = w_foo -> {PX, PY, PY2, PL}
      [] ident = w_bar -> {PX, PK, PM, PZ}
      [] ident = w_dd -> {PD}
      [] OTHER -> {}

\* window.folders()
folders == << <<"proj">> >>

NoPath == [dir |-> << >>, name |-> "", ext |-> ""]
NoText == [body |-> << >>, pad |-> 0]

\* View ids.  None stands for Python's None.
None == 0
MainView == 1
ScratchView == 2
FirstPromptId == 3

\* The two views the user edits: main.py, and an untitled buffer with no
\* syntax.  `parts` is the text of a prompt view, as the list of strings
\* appended to it.
InitViews ==
    (MainView :> [file |-> [dir |-> <<"proj", "a">>, name |-> "main", ext |-> ".py"],
                  syntax |-> "Python", name |-> "", scratch |-> FALSE,
                  buf |-> <<"f","o","o"," ","b","a","r"," ","d","d"," ","d","d">>, parts |-> << >>, caret |-> 0]) @@
    (ScratchView :> [file |-> NoPath,
                     syntax |-> "", name |-> "", scratch |-> FALSE,
                     buf |-> <<"i","f">>, parts |-> << >>, caret |-> 0])

SourceViews == {MainView, ScratchView}

\* view.sel(): the selections the user may hold when a command runs, each a
\* list of regions [a, b) of the buffer
Region(a, b) == [a |-> a, b |-> b]

SelChoices(v) ==
    IF v = MainView
    THEN {<<Region(2, 2)>>, <<Region(8, 10), Region(11, 13)>>}
    ELSE {<<Region(0, 0)>>}

\* view.substr(region)
substr(buf, r) == SubSeq(buf, r.a + 1, r.b)

\* view.syntax().name.lower() if view.syntax() else ""
LowerName(n) == IF n = "Python" THEN "python" ELSE n
sel_lang(view) == IF view.syntax # "" THEN LowerName(view.syntax) ELSE ""

\* [view.substr(r) for r in view.sel() if not r.empty()]
RECURSIVE selections(_, _)
selections(buf, sel) ==
    IF sel = << >> THEN << >>
    ELSE IF Head(sel).a = Head(sel).b THEN selections(buf, Tail(sel))
    ELSE <<substr(buf, Head(sel))>> \o selections(buf, Tail(sel))

\* "\n\n".join(selections)
RECURSIVE join(_)
join(ss) ==
    IF ss = << >> THEN << >>
    ELSE IF Len(ss) = 1 THEN Head(ss)
    ELSE Head(ss) \o <<"\n", "\n">> \o join(Tail(ss))

\* ------------------------------------------------------------------------
\*  Bounds of the model
\* ------------------------------------------------------------------------

\* prompt views one behaviour creates
MaxPrompts == 2
\* rows activated in the pickers of one behaviour
MaxActivations == 3
\* writes to files in one behaviour
MaxFsSteps == 2
\* successful appends in one behaviour
MaxAppends == 1

\* ------------------------------------------------------------------------
\*  State
\* ------------------------------------------------------------------------

VARIABLES
    fs,        \* the file system: path -> [kind, txt]
    views,     \* window.views(): id -> view
    settings,  \* window.settings().get(_SETTINGS_KEY)
    next_id,   \* the id window.new_file() gives next
    status,    \* the last sublime.status_message
    pc,        \* "idle", or "displaying" while the quick panel is open
    run,       \* the closure of GenerateLlmPromptCommand.run while it lives
    panel,     \* the open quick panel, as show_quick_panel was called
    op,        \* the last operation, with its arguments
    hist,      \* the history of the generate run last started, kept until
               \* the next command
    used       \* what of the bounds is used up

vars == <<fs, views, settings, next_id, status, pc, run, panel, op, hist, used>>

\* show_quick_panel's default selected_index
Unset == -1

NoRun ==
    [view |-> None, snippet_text |-> << >>, identifiers |-> {},
     scored |-> << >>, included |-> << >>]

NoPanel == [items |-> << >>, selected_index |-> Unset]

NoHist ==
    [readable |-> {}, ranked |-> << >>, incl0 |-> << >>, toggles |-> << >>,
     last |-> Unset, renders |-> 0, composed |-> 0, handed |-> << >>,
     views0 |-> << >>, tracked0 |-> None, next0 |-> None]

\* `paths`: the discovery order of a generate, the path of a file change
Op(name, paths, ident, idx) ==
    [name |-> name, paths |-> paths, ident |-> ident, idx |-> idx]

Init ==
    /\ fs = InitFs
    /\ views = InitViews
    /\ settings = None
    /\ next_id = FirstPromptId
    /\ status = ""
    /\ pc = "idle"
    /\ run = NoRun
    /\ panel = NoPanel
    /\ op = Op("init", << >>, << >>, Unset)
    /\ hist = NoHist
    /\ used = [prompts |-> 0, acts |-> 0, fs |-> 0, appends |-> 0]

\* ------------------------------------------------------------------------
\*  Relevance scorer (GenerateLlmPromptCommand.run, step 2)
\* ------------------------------------------------------------------------

\* len(txt)
TextLen(txt) == Len(txt.body) + txt.pad

\* sum(f(ident) for ident in identifiers), f given as a function
RECURSIVE SumOver(_, _)
SumOver(ids, f) ==
    IF ids = {} THEN 0
    ELSE LET i == CHOOSE x \in ids : TRUE
         IN  f[i] + SumOver(ids \ {i}, f)

\* len(re.findall(rf"\b{re.escape(ident)}\b", txt)) of every identifier
hit_counts(identifiers, txt) ==
    [i \in identifiers |-> CountMatches(i, txt.body)]

\* sum(1 for ident in identifiers if re.search(...)), re.search finding
\* the pattern iff re.findall finds it at least once
distinct_of(counts) ==
    SumOver(DOMAIN counts, [i \in DOMAIN counts |-> IF counts[i] > 0 THEN 1 ELSE 0])

\* sum(len(re.findall(...)) for ident in identifiers)
total_of(counts) == SumOver(DOMAIN counts, counts)

distinct_hits(identifiers, txt) == distinct_of(hit_counts(identifiers, txt))

total_hits(identifiers, txt) == total_of(hit_counts(identifiers, txt))

\* a scorer that weighs a file's first hit of an identifier like any other
hit_score_unweighted(counts, same_dir) ==
    2 * total_of(counts) + (IF same_dir THEN 20 ELSE 0)

\* 100 * distinct_hits + 2 * total_hits + (20 if same_dir else 0)
hit_score_of(counts, same_dir) ==
    100 * distinct_of(counts) + 2 * total_of(counts)
    + (IF same_dir THEN 20 ELSE 0)

hit_score(identifiers, origin_dir, path, txt) ==
    hit_score_of(hit_counts(identifiers, txt), dirname(path) = origin_dir)

\* The score, times 1024: size_kb = len(txt) / 1024 is a fraction with
\* denominator 1024, and so is the score, exactly (a float holds it).
score(identifiers, origin_dir, path, txt) ==
    1024 * hit_score(identifiers, origin_dir, path, txt) - TextLen(txt)

\* os.path.isfile(path)
isfile(f) == f.kind \in {"file", "locked"}

\* a scorer that takes every candidate path as it comes
readable_unchecked(f) == TRUE

\* os.path.isfile(path), and open(path).read() raises nothing
readable(f) == isfile(f) /\ f.kind = "file"

\* the tuples (path, score, txt) of the candidates that are scored
scored_entries(cands, files, identifiers, origin_dir) ==
    [path \in {c \in cands : readable(files[c])} |->
        [path |-> path,
         score |-> score(identifiers, origin_dir, path, files[path].txt),
         txt |-> files[path].txt]]

\* the loop over candidate_paths, in the order `order` the set gives them:
\* `scored` in the order of appending
RECURSIVE score_all(_, _)
score_all(order, entries) ==
    IF order = << >> THEN << >>
    ELSE IF Head(order) \in DOMAIN entries
    THEN <<entries[Head(order)]>> \o score_all(Tail(order), entries)
    ELSE score_all(Tail(order), entries)

\* a sort key that ranks by ascending score
sort_key_ascending(t) == t.score

\* the sort key: lambda t: -t[1]
sort_key(t) == 0 - t.score

\* insert t after every element whose key is not greater (stable)
RECURSIVE insert_sorted(_, _)
insert_sorted(sorted, t) ==
    IF sorted = << >> THEN <<t>>
    ELSE IF sort_key(Head(sorted)) <= sort_key(t)
    THEN <<Head(sorted)>> \o insert_sorted(Tail(sorted), t)
    ELSE <<t>> \o sorted

\* scored.sort(key=lambda t: -t[1])
RECURSIVE sort_scored(_)
sort_scored(scored) ==
    IF scored = << >> THEN << >>
    ELSE insert_sorted(sort_scored(SubSeq(scored, 1, Len(scored) - 1)),
                       scored[Len(scored)])

\* the union of the index lookups of every identifier
candidate_paths(identifiers) ==
    UNION {lookup_symbol_in_index(ident) : ident \in identifiers}

\* PathList restricted to S
RECURSIVE Listed(_, _)
Listed(list, S) ==
    IF list = << >> THEN << >>
    ELSE IF Head(list) \in S THEN <<Head(list)>> \o Listed(Tail(list), S)
    ELSE Listed(Tail(list), S)

Reverse(s) == [i \in 1..Len(s) |-> s[Len(s) + 1 - i]]

\* The orders in which iterating the set candidate_paths may give its
\* elements: the listed order and its reverse (every two candidates are met
\* in both orders).
DiscoveryOrders(S) ==
    IF S = {} THEN {<< >>}
    ELSE LET l == Listed(PathList, S)
         IN  {l, Reverse(l)}

\* ------------------------------------------------------------------------
\*  Prompt composer (GenerateLlmPromptCommand._finalise_prompt)
\* ------------------------------------------------------------------------

\* One string appended to `parts`, or to the prompt view, by what it holds.
Part(kind, idx, rel, lang, lines, text) ==
    [kind |-> kind, idx |-> idx, rel |-> rel, lang |-> lang,
     lines |-> lines, text |-> text]

\* (window.folders() or ["."])[0]
project_root == IF folders # << >> THEN folders[1] ELSE <<".">>

\* the overview lines of the definitions `defs` of the file at `rel`:
\* "- class <cls>  <-  <rel>" for every class key among the identifiers (its
\* list of methods is empty), "- function <name><sig>  <-  <rel>" for every
\* function under the key "" whose name is among the identifiers
definition_lines(defs, rel, idents) ==
    LET InIdents(n) == n \in idents
        FuncInIdents(f) == f.name \in idents
    IN  [i \in 1..Len(SelectSeq(defs.classes, InIdents)) |->
            [kind |-> "class", name |-> SelectSeq(defs.classes, InIdents)[i],
             sig |-> << >>, rel |-> rel]]
        \o
        [i \in 1..Len(SelectSeq(defs.funcs, FuncInIdents)) |->
            [kind |-> "function",
             name |-> SelectSeq(defs.funcs, FuncInIdents)[i].name,
             sig |-> SelectSeq(defs.funcs, FuncInIdents)[i].sig,
             rel |-> rel]]

\* the overview lines of one related file
file_overview(path, txt, idents) ==
    definition_lines(extract_definitions(txt.body, syntax_from_extension(path)),
                     relpath(path, project_root), idents)

RECURSIVE overview_lines(_, _)
overview_lines(related, idents) ==
    IF related = << >> THEN << >>
    ELSE file_overview(Head(related).path, Head(related).txt, idents)
         \o overview_lines(Tail(related), idents)

\* the <overview> block, when there are overview lines (textwrap.dedent
\* leaves them as they are: each starts with "-")
overview_parts(overview) ==
    IF overview # << >>
    THEN <<Part("overview_open", 0, NoRel, "", << >>, NoText),
           Part("overview", 0, NoRel, "", overview, NoText),
           Part("overview_close", 0, NoRel, "", << >>, NoText)>>
    ELSE << >>

\* prompt_text, as the list `parts`
prompt_parts(view, snippet, related, idents) ==
    <<Part("user_question", 0, NoRel, "", << >>, NoText)>>
    \o <<Part("file_map_open", 0, NoRel, "", << >>, NoText)>>
    \o [i \in 1..Len(related) |->
           Part("file_map_entry", i, relpath(related[i].path, project_root),
                "", << >>, NoText)]
    \o <<Part("file_map_close", 0, NoRel, "", << >>, NoText)>>
    \o <<Part("selection", 0, NoRel, sel_lang(view), << >>,
              [body |-> snippet, pad |-> 0])>>
    \o [i \in 1..Len(related) |->
           Part("file_contents", 0, relpath(related[i].path, project_root),
                syntax_from_extension(related[i].path), << >>, related[i].txt)]
    \o overview_parts(overview_lines(related, idents))

\* prompt_text.find("# Your question") + len("# Your question\n\n")
q_start == 33

\* the view window.new_file() gives, once named, filled and positioned
prompt_view(view, snippet, related, idents) ==
    [file |-> NoPath,
     syntax |-> "Packages/Markdown/Markdown.sublime-syntax",
     name |-> "LLM-Prompt.md", scratch |-> TRUE, buf |-> << >>,
     parts |-> prompt_parts(view, snippet, related, idents),
     caret |-> q_start]

\* a composer that keeps the association the window already has
tracked_first(new_view_id, old) == IF old = None THEN new_view_id ELSE old

\* window.settings().set(_SETTINGS_KEY, prompt_view.id())
tracked_after_finalise(new_view_id, old) == new_view_id

\* _finalise_prompt(window, snippet, related, idents), run from view v
finalise_prompt(v, snippet, related, idents) ==
    /\ views' = (next_id :> prompt_view(views[v], snippet, related, idents)) @@ views
    /\ settings' = tracked_after_finalise(next_id, settings)
    /\ next_id' = next_id + 1
    /\ status' = "LLM-Prompt: prompt generated"
    /\ used' = [used EXCEPT !.prompts = @ + 1]
    /\ run' = NoRun
    /\ panel' = NoPanel
    /\ pc' = "idle"

\* ------------------------------------------------------------------------
\*  GenerateLlmPromptCommand.run
\* ------------------------------------------------------------------------

\* rows pre-selected when the picker opens
TopN == 5

\* included = [(i < 5) for i in range(len(scored))]
initial_included(scored) == [i \in 1..Len(scored) |-> (i - 1) < TopN]

\* _display_items(): one label per ranked file, then the Done item
display_items(scored, included) ==
    [i \in 1..Len(scored) |->
        [glyph |-> IF included[i] THEN "checked" ELSE "unchecked",
         rel |-> relpath(scored[i].path, IF folders # << >> THEN folders[1] ELSE << >>)]]
    \o <<[glyph |-> "done", rel |-> NoRel]>>

\* window.show_quick_panel(items, _on_done, _MONO[, selected_index])
show_quick_panel(items, selected_index) ==
    [items |-> items, selected_index |-> selected_index]

\* the snippet of a command run from `view` holding the selection `sel`
snippet_of(view, sel) ==
    LET ss == selections(view.buf, sel)
    IN  join(IF ss = << >>
             THEN <<substr(view.buf, Region(0, Len(view.buf)))>>
             ELSE ss)

\* identifiers, with the placeholder for the empty set
identifiers_of(snippet) ==
    LET ids == extract_identifiers(snippet)
    IN  IF ids = {} THEN {<< >>} ELSE ids

\* the ranked list of a run
ranked(order, entries) == sort_scored(score_all(order, entries))

PathsOf(s) == [i \in 1..Len(s) |-> s[i].path]

\* what the claims need of the run that starts: the candidates that are
\* readable regular files now, the ranked paths, the flags the picker opens
\* with, and the window as it is now
StartHist(cands, scored, included) ==
    [readable |-> {p \in cands : fs[p].kind = "file"},
     ranked |-> PathsOf(scored),
     incl0 |-> included,
     toggles |-> [i \in 1..Len(included) |-> 0],
     last |-> Unset, renders |-> 0, composed |-> 0, handed |-> << >>,
     views0 |-> views, tracked0 |-> settings, next0 |-> next_id]

\* run() once the ranked list `scored` is there
GenerateRanked(v, snippet, ids, cands, order, scored, included) ==
    /\ op' = Op("generate", order, << >>, Unset)
    /\ IF scored = << >>
       THEN /\ finalise_prompt(v, snippet, << >>, ids)
            /\ hist' = [StartHist(cands, scored, included) EXCEPT !.composed = 1]
       ELSE /\ pc' = "displaying"
            /\ run' = [view |-> v, snippet_text |-> snippet, identifiers |-> ids,
                       scored |-> scored, included |-> included]
            /\ panel' = show_quick_panel(display_items(scored, included), Unset)
            /\ hist' = [StartHist(cands, scored, included) EXCEPT !.renders = 1]
            /\ UNCHANGED <<views, settings, next_id, status, used>>

\* run(), on view v holding the selection sel
Generate(v, sel) ==
    /\ pc = "idle"
    /\ used.prompts < MaxPrompts
    /\ \E snippet \in {snippet_of(views[v], sel)} :
       \E ids \in {identifiers_of(snippet)} :
       \E cands \in {candidate_paths(ids)} :
       \E entries \in {scored_entries(cands, fs, ids, dirname(views[v].file))} :
       \E order \in DiscoveryOrders(cands) :
       \E scored \in {ranked(order, entries)} :
          GenerateRanked(v, snippet, ids, cands, order, scored,
                         initial_included(scored))
    /\ UNCHANGED fs

\* ------------------------------------------------------------------------
\*  The picker's callback _on_done(idx)
\* ------------------------------------------------------------------------

\* a Done that hands over every ranked file, whatever its flag
chosen_all(scored, included) ==
    [i \in 1..Len(scored) |-> [path |-> scored[i].path, txt |-> scored[i].txt]]

\* [(p, txt) for (p, _, txt), inc in zip(scored, included) if inc]
RECURSIVE chosen(_, _)
chosen(scored, included) ==
    IF scored = << >> \/ included = << >> THEN << >>
    ELSE (IF Head(included)
          THEN <<[path |-> Head(scored).path, txt |-> Head(scored).txt]>>
          ELSE << >>)
         \o chosen(Tail(scored), Tail(included))

\* an activation that marks the row included, whatever it was
toggled_on(included, idx) == [included EXCEPT ![idx + 1] = TRUE]

\* included[idx] = not included[idx]
toggled(included, idx) == [included EXCEPT ![idx + 1] = ~@]

\* a re-render that passes no selected_index
reopened_unfocused(scored, included, idx) ==
    show_quick_panel(display_items(scored, included), Unset)

\* window.show_quick_panel(_display_items(), _on_done, _MONO, idx)
reopened(scored, included, idx) ==
    show_quick_panel(display_items(scored, included), idx)

\* a cancel that composes what is flagged
PickerCancelComposing ==
    /\ pc = "displaying"
    /\ finalise_prompt(run.view, run.snippet_text,
                       chosen(run.scored, run.included), run.identifiers)
    /\ op' = Op("cancel", << >>, << >>, -1)
    /\ UNCHANGED <<fs, hist>>

\* idx == -1
PickerCancel ==
    /\ pc = "displaying"
    /\ pc' = "idle"
    /\ run' = NoRun
    /\ panel' = NoPanel
    /\ op' = Op("cancel", << >>, << >>, -1)
    /\ UNCHANGED <<fs, views, settings, next_id, status, hist, used>>

\* idx == len(included)
PickerDone ==
    /\ pc = "displaying"
    /\ LET related == chosen(run.scored, run.included)
       IN  /\ finalise_prompt(run.view, run.snippet_text, related, run.identifiers)
           /\ hist' = [hist EXCEPT !.composed = @ + 1, !.handed = related]
    /\ op' = Op("done", << >>, << >>, Len(run.included))
    /\ UNCHANGED fs

\* the rows the user activates: the two on either side of the
\* pre-selection's edge
PickRows == {TopN - 1, TopN}

\* 0 <= idx < len(included)
PickerToggle(idx) ==
    /\ pc = "displaying"
    /\ idx \in 0..(Len(run.included) - 1)
    /\ used.acts < MaxActivations
    /\ LET inc == toggled(run.included, idx)
       IN  /\ run' = [run EXCEPT !.included = inc]
           /\ panel' = reopened(run.scored, inc, idx)
    /\ hist' = [hist EXCEPT !.toggles[idx + 1] = @ + 1, !.last = idx,
                            !.renders = @ + 1]
    /\ op' = Op("toggle", << >>, << >>, idx)
    /\ used' = [used EXCEPT !.acts = @ + 1]
    /\ UNCHANGED <<fs, views, settings, next_id, status, pc>>

\* ------------------------------------------------------------------------
\*  AddSelectionToPromptCommand.run
\* ------------------------------------------------------------------------

\* next((v for v in window.views() if v.id() == prompt_id), None)
find_prompt_view(vs, prompt_id) ==
    IF prompt_id \in DOMAIN vs THEN prompt_id ELSE None

\* the fenced block of the appended selection
additional_selection(view, sel) ==
    Part("additional_selection", 0, NoRel, sel_lang(view), << >>,
         [body |-> join(selections(view.buf, sel)), pad |-> 0])

\* prompt_view.run_command("append", {"characters": snippet})
append_characters(parts, snippet) == Append(parts, snippet)

\* an append that does not look at the selection
views_after_append_unchecked(vs, tracked, v, sel) ==
    LET prompt == find_prompt_view(vs, tracked)
    IN  IF prompt = None THEN vs
        ELSE [vs EXCEPT ![prompt].parts =
                 append_characters(@, additional_selection(vs[v], sel))]

\* the views after run() on view v holding the selection sel
views_after_append(vs, tracked, v, sel) ==
    LET prompt == find_prompt_view(vs, tracked)
    IN  IF prompt = None THEN vs
        ELSE IF selections(vs[v].buf, sel) = << >> THEN vs
        ELSE [vs EXCEPT ![prompt].parts =
                 append_characters(@, additional_selection(vs[v], sel))]

AppendNoActivePrompt(v, sel) ==
    /\ pc = "idle"
    /\ find_prompt_view(views, settings) = None
    /\ views' = views_after_append(views, settings, v, sel)
    /\ status' = "LLM-Prompt: no active prompt."
    /\ op' = Op("append_noactive", << >>, << >>, Unset)
    /\ hist' = NoHist
    /\ UNCHANGED <<fs, settings, next_id, pc, run, panel, used>>

AppendNoSelection(v, sel) ==
    /\ pc = "idle"
    /\ find_prompt_view(views, settings) # None
    /\ selections(views[v].buf, sel) = << >>
    /\ views' = views_after_append(views, settings, v, sel)
    /\ status' = "LLM-Prompt: nothing selected."
    /\ op' = Op("append_nosel", << >>, << >>, Unset)
    /\ hist' = NoHist
    /\ UNCHANGED <<fs, settings, next_id, pc, run, panel, used>>

AppendSelection(v, sel) ==
    /\ pc = "idle"
    /\ used.appends < MaxAppends
    /\ find_prompt_view(views, settings) # None
    /\ selections(views[v].buf, sel) # << >>
    /\ views' = views_after_append(views, settings, v, sel)
    /\ status' = "LLM-Prompt: context appended"
    /\ op' = Op("append_ok", << >>, << >>, Unset)
    /\ hist' = NoHist
    /\ used' = [used EXCEPT !.appends = @ + 1]
    /\ UNCHANGED <<fs, settings, next_id, pc, run, panel>>

\* ------------------------------------------------------------------------
\*  The environment: the user closes a prompt tab; files are written to
\* ------------------------------------------------------------------------

\* the user closes the tab of the tracked prompt
CloseView(id) ==
    /\ pc = "idle"
    /\ id \in DOMAIN views \ SourceViews
    /\ id = settings
    /\ views' = [i \in DOMAIN views \ {id} |-> views[i]]
    /\ op' = Op("close", << >>, << >>, id)
    /\ hist' = NoHist
    /\ UNCHANGED <<fs, settings, next_id, status, pc, run, panel, used>>

EditPaths == {PX, PY, PK}
EditIdents == {w_foo, w_bar, w_dd}

\* one more occurrence of ident, as a word of its own, is written after the
\* file's last word: either the text grows by the characters written, or
\* they overwrite trailing blanks and the length stays what it was
with_occurrence(txt, ident, grow) ==
    [body |-> txt.body \o <<" ">> \o ident,
     pad  |-> IF grow THEN txt.pad ELSE txt.pad - (Len(ident) + 1)]

EditFile(p, ident, grow) ==
    /\ used.fs < MaxFsSteps
    /\ fs[p].kind = "file"
    /\ grow \/ fs[p].txt.pad >= Len(ident) + 1
    /\ fs' = [fs EXCEPT ![p].txt = with_occurrence(@, ident, grow)]
    /\ op' = Op("edit", <<p>>, ident, Unset)
    /\ used' = [used EXCEPT !.fs = @ + 1]
    /\ UNCHANGED <<views, settings, next_id, status, pc, run, panel, hist>>

\* ------------------------------------------------------------------------
\*  Specification
\* ------------------------------------------------------------------------

Next ==
    \/ \E v \in SourceViews : \E sel \in SelChoices(v) : Generate(v, sel)
    \/ PickerCancel
    \/ PickerDone
    \/ \E idx \in PickRows : PickerToggle(idx)
    \/ \E v \in SourceViews : \E sel \in SelChoices(v) : AppendNoActivePrompt(v, sel)
    \/ \E v \in SourceViews : \E sel \in SelChoices(v) : AppendNoSelection(v, sel)
    \/ \E v \in SourceViews : \E sel \in SelChoices(v) : AppendSelection(v, sel)
    \/ \E id \in DOMAIN views : CloseView(id)

\* the commands, in a window whose prompt tab may be closed
Spec == Init /\ [][Next]_vars

ScoreNext ==
    \E p \in EditPaths : \E ident \in EditIdents : \E grow \in BOOLEAN :
        EditFile(p, ident, grow)

\* the scorer's inputs: files that are being written to
ScoreSpec == Init /\ [][ScoreNext]_vars

\* ------------------------------------------------------------------------
\*  Properties of the picker
\* ------------------------------------------------------------------------

Odd(n) == n % 2 = 1

\* row k (from 0) of the run's picker is one the claim says is handed over
HandedOver(k) ==
    \/ k < 5 /\ ~Odd(hist.toggles[k + 1])
    \/ k >= 5 /\ Odd(hist.toggles[k + 1])

\* the ranked paths from row k on that the claim says are handed over
RECURSIVE HandedFrom(_)
HandedFrom(k) ==
    IF k >= Len(hist.ranked) THEN << >>
    ELSE (IF HandedOver(k) THEN <<hist.ranked[k + 1]>> ELSE << >>)
         \o HandedFrom(k + 1)

\* the paths of the <file_map> of a prompt view, in the order of the entries
FileMap(view) ==
    LET IsEntry(part) == part.kind = "file_map_entry"
        entries == SelectSeq(view.parts, IsEntry)
    IN  [i \in 1..Len(entries) |-> entries[i].rel]

RelPaths(paths) == [i \in 1..Len(paths) |-> relpath(paths[i], project_root)]

\* C1: when the picker of a run over n >= 1 ranked files is ended with Done,
\* the composer has run exactly once in that run (one view more than when
\* the command was invoked), on exactly the files of the rows k with k < 5
\* and an even number of activations or k >= 5 and an odd number, in ranked
\* order, each with the text that was scored; the new view's file map lists
\* exactly those.
C1_DoneHandsFlagged ==
    op.name = "done" =>
        /\ Len(hist.ranked) >= 1
        /\ hist.composed = 1
        /\ next_id = hist.next0 + 1
        /\ PathsOf(hist.handed) = HandedFrom(0)
        /\ FileMap(views[hist.next0]) = RelPaths(HandedFrom(0))

\* C1 happens: Done after row 4 and row 5 were activated once each, so that
\* a pre-selected file is left out and a file beyond the first five is in
C1_Witness ==
    /\ op.name = "done"
    /\ Len(hist.ranked) = 6
    /\ hist.toggles[5] = 1
    /\ hist.toggles[6] = 1
    /\ PathsOf(hist.handed) =
          <<hist.ranked[1], hist.ranked[2], hist.ranked[3], hist.ranked[4],
            hist.ranked[6]>>

\* C2: while the picker is open, the flags are as many as the ranked files,
\* the ranked list is the one the picker opened with, and the flag of every
\* row is the one it opened with if the row was activated an even number of
\* times and the opposite if odd: two activations of a row restore its flag
\* and an activation of another row leaves it alone.
C2_ToggleInvolution ==
    pc = "displaying" =>
        /\ Len(run.included) = Len(hist.incl0)
        /\ Len(run.included) = Len(run.scored)
        /\ PathsOf(run.scored) = hist.ranked
        /\ \A j \in 1..Len(run.included) :
              run.included[j] = (hist.incl0[j] # Odd(hist.toggles[j]))

\* C2 happens: a row has been activated twice and another row once
C2_Witness ==
    /\ pc = "displaying"
    /\ op.name = "toggle"
    /\ \E j, k \in 1..Len(run.included) :
          /\ hist.toggles[j] = 2 /\ run.included[j] = hist.incl0[j]
          /\ hist.toggles[k] = 1 /\ run.included[k] # hist.incl0[k]

\* C3: after the activation of row i the picker is open, showing the flags
\* as they now are, with selected_index i; the panel has no selected_index
\* exactly when it is the first render of the run.
C3_StickyCursor ==
    /\ op.name = "toggle" =>
          /\ pc = "displaying"
          /\ op.idx \in 0..(Len(run.included) - 1)
          /\ panel.selected_index = op.idx
          /\ panel.items = display_items(run.scored, run.included)
    /\ pc = "displaying" =>
          /\ hist.renders >= 1
          /\ (panel.selected_index = Unset) = (hist.renders = 1)
          /\ hist.renders > 1 => panel.selected_index = hist.last

\* C3 happens: the third render of a picker, after row 5 was activated
C3_Witness ==
    /\ op.name = "toggle"
    /\ op.idx = 5
    /\ hist.renders = 3
    /\ panel.selected_index = 5

\* C4: once the picker is cancelled, the composer has not run, and the
\* window's views, each with its text, the tracked prompt view and the next
\* view id are those of the moment the generate command was invoked.
C4_CancelNoEffect ==
    op.name = "cancel" =>
        /\ pc = "idle"
        /\ hist.composed = 0
        /\ views = hist.views0
        /\ settings = hist.tracked0
        /\ next_id = hist.next0

\* C4 happens: a cancel after a toggle, in a window that tracked a prompt
C4_Witness ==
    /\ op.name = "cancel"
    /\ hist.tracked0 # None
    /\ \E j \in 1..Len(hist.toggles) : hist.toggles[j] > 0

\* ------------------------------------------------------------------------
\*  Properties of the append command and of the tracked prompt view
\* ------------------------------------------------------------------------

\* C5: a step that ends in the report "no active prompt" or "nothing
\* selected" of the append command leaves every view of the window, with its
\* text, and the tracked prompt view as they were, and sets the status
\* message of the failure.
C5_FailedAppendNoEffect ==
    [][op'.name \in {"append_noactive", "append_nosel"} =>
          /\ views' = views
          /\ settings' = settings
          /\ status' = (IF op'.name = "append_noactive"
                        THEN "LLM-Prompt: no active prompt."
                        ELSE "LLM-Prompt: nothing selected.")]_vars

\* C5 happens: an append with an empty selection, a prompt view being tracked
\* and open
C5_Witness ==
    /\ op.name = "append_nosel"
    /\ settings \in DOMAIN views
    /\ status = "LLM-Prompt: nothing selected."

\* the window tracks no view before the first prompt is composed, and then
\* the view composed last
TracksLatest ==
    settings = (IF next_id = FirstPromptId THEN None ELSE next_id - 1)

\* the text of view id has grown by one <additional-selection> block, at
\* its end
GrewByBlock(id) ==
    /\ Len(views'[id].parts) = Len(views[id].parts) + 1
    /\ SubSeq(views'[id].parts, 1, Len(views[id].parts)) = views[id].parts
    /\ views'[id].parts[Len(views'[id].parts)].kind = "additional_selection"
    /\ [views'[id] EXCEPT !.parts = << >>] = [views[id] EXCEPT !.parts = << >>]

\* C6: the window tracks the prompt view composed last, and no view before
\* the first is composed; a step that composes a prompt leaves every view
\* there was open and as it was, the new view being the only one more; a
\* successful append adds one <additional-selection> block at the end of
\* the tracked view and changes no other view, nor what is tracked.
C6_TracksLatestAppendsToIt ==
    [][/\ TracksLatest /\ TracksLatest'
       /\ next_id' # next_id =>
             /\ next_id' = next_id + 1
             /\ DOMAIN views' = DOMAIN views \cup {next_id}
             /\ \A id \in DOMAIN views : views'[id] = views[id]
       /\ (op'.name = "append_ok" /\ views' # views) =>
             /\ settings' = settings
             /\ DOMAIN views' = DOMAIN views
             /\ GrewByBlock(settings)
             /\ \A id \in DOMAIN views \ {settings} : views'[id] = views[id]]_vars

HasBlock(view) ==
    \E i \in 1..Len(view.parts) : view.parts[i].kind = "additional_selection"

\* C6 happens: two prompts were composed, both views are open, and a
\* selection was appended to the second and not to the first
C6_Witness ==
    /\ op.name = "append_ok"
    /\ settings = FirstPromptId + 1
    /\ {FirstPromptId, FirstPromptId + 1} \subseteq DOMAIN views
    /\ views[settings].parts[Len(views[settings].parts)].kind = "additional_selection"
    /\ ~HasBlock(views[FirstPromptId])

\* ------------------------------------------------------------------------
\*  Properties of the scorer and of the ranked list
\* ------------------------------------------------------------------------

\* The score the specification gives a file, times 1024:
\* 100 * distinct_hits + 2 * total_hits + (20 if the file's directory is the
\* origin directory) - text length / 1024
StatedScore(identifiers, origin_dir, path, txt) ==
    LET matched == {i \in identifiers : Found(i, txt.body)}
        occurrences == [i \in identifiers |-> CountMatches(i, txt.body)]
    IN  1024 * (100 * Cardinality(matched)
                + 2 * SumOver(identifiers, occurrences)
                + (IF dirname(path) = origin_dir THEN 20 ELSE 0))
        - (Len(txt.body) + txt.pad)

\* C7: in the ranked list of an open picker every file has the stated score
\* for the run's identifiers and the directory of the view the command was
\* run on, and no file comes before one of greater score: of two files of
\* different scores the one of greater score comes first, in whatever order
\* the candidates were discovered.
C7_RankedByScore ==
    pc = "displaying" =>
        /\ \A i \in 1..Len(run.scored) :
              run.scored[i].score =
                 StatedScore(run.identifiers, dirname(views[run.view].file),
                             run.scored[i].path, run.scored[i].txt)
        /\ \A i, j \in 1..Len(run.scored) :
              run.scored[i].score > run.scored[j].score => i < j

\* position of x in the list s, 0 if it is not there
IndexOf(s, x) ==
    IF x \in SeqRange(s) THEN CHOOSE i \in 1..Len(s) : s[i] = x ELSE 0

\* C7 happens: y.py, of score 103, was discovered before x.py, of score 227,
\* and x.py is ranked first
C7_Witness ==
    /\ pc = "displaying"
    /\ op.name = "generate"
    /\ IndexOf(op.paths, PY) > 0
    /\ IndexOf(op.paths, PY) < IndexOf(op.paths, PX)
    /\ run.scored[1].path = PX
    /\ run.scored[1].score = 227 * 1024
    /\ \E j \in 2..Len(run.scored) :
          run.scored[j].path = PY /\ run.scored[j].score = 103 * 1024

\* views composed by the run whose history is kept
RunView == views[hist.next0]

\* C9: the ranked list of a run holds exactly the candidates that were
\* readable regular files when the run scored them, each once, whatever
\* other candidates there were; the file map of the prompt composed at Done
\* lists ranked files only, each once; and a run none of whose candidates
\* is readable opens no picker and composes a prompt with no related file,
\* which the window then tracks.
C9_UnreadableDropped ==
    /\ op.name \in {"generate", "toggle", "done", "cancel"} =>
          /\ SeqRange(hist.ranked) = hist.readable
          /\ \A i, j \in 1..Len(hist.ranked) :
                hist.ranked[i] = hist.ranked[j] => i = j
    /\ pc = "displaying" => PathsOf(run.scored) = hist.ranked
    /\ op.name = "done" =>
          /\ SeqRange(PathsOf(hist.handed)) \subseteq hist.readable
          /\ SeqRange(FileMap(RunView))
                \subseteq {relpath(q, project_root) : q \in hist.readable}
          /\ \A i, j \in 1..Len(FileMap(RunView)) :
                FileMap(RunView)[i] = FileMap(RunView)[j] => i = j
    /\ (op.name = "generate" /\ hist.readable = {}) =>
          /\ pc = "idle"
          /\ hist.renders = 0
          /\ hist.composed = 1
          /\ next_id = hist.next0 + 1
          /\ settings = hist.next0
          /\ FileMap(RunView) = << >>
          /\ \A i \in 1..Len(RunView.parts) :
                RunView.parts[i].kind # "file_contents"

\* C9 happens: of the candidates of a run one is a directory and one a file
\* that cannot be opened, and the picker lists the other six
C9_Witness ==
    /\ pc = "displaying"
    /\ op.name = "generate"
    /\ {PL, PD} \subseteq SeqRange(op.paths)
    /\ fs[PL].kind = "locked"
    /\ fs[PD].kind = "dir"
    /\ Len(run.scored) = 6
    /\ PL \notin SeqRange(PathsOf(run.scored))
    /\ PD \notin SeqRange(PathsOf(run.scored))

\* the identifier sets and origin directories of the commands the window's
\* views can run
RunIdentifiers ==
    UNION {{identifiers_of(snippet_of(InitViews[v], sel)) : sel \in SelChoices(v)} :
              v \in SourceViews}

OriginDirs == {dirname(InitViews[v].file) : v \in SourceViews}

\* what a step that writes one more occurrence of an identifier into a file
\* does to the file's score (times 1024), hit terms and length
ScoreGain(ids, origin) ==
    score(ids, origin, op'.paths[1], fs'[op'.paths[1]].txt)
    - score(ids, origin, op'.paths[1], fs[op'.paths[1]].txt)

HitGain(ids, origin) ==
    hit_score(ids, origin, op'.paths[1], fs'[op'.paths[1]].txt)
    - hit_score(ids, origin, op'.paths[1], fs[op'.paths[1]].txt)

DistinctGain(ids) ==
    distinct_hits(ids, fs'[op'.paths[1]].txt)
    - distinct_hits(ids, fs[op'.paths[1]].txt)

LengthGain == TextLen(fs'[op'.paths[1]].txt) - TextLen(fs[op'.paths[1]].txt)

WasMatched == Found(op'.ident, fs[op'.paths[1]].txt.body)

\* C8, as stated: for every identifier set and origin directory, a step that
\* adds one occurrence of an identifier of the set to a file raises the
\* file's score by exactly 102 if the file did not match the identifier, and
\* by exactly 2, the distinct hits staying what they were, if it did.
C8_GainExactly102Or2 ==
    [][fs' # fs =>
          \A ids \in RunIdentifiers : \A origin \in OriginDirs :
             op'.ident \in ids =>
                IF WasMatched
                THEN DistinctGain(ids) = 0 /\ ScoreGain(ids, origin) = 2 * 1024
                ELSE ScoreGain(ids, origin) = 102 * 1024]_vars

\* C8, amended: the step raises 100 * distinct_hits + 2 * total_hits by
\* exactly 102 if the file did not match the identifier, and by exactly 2,
\* the distinct hits staying what they were, if it did; the score rises by
\* that less the growth of the text in characters / 1024, so by exactly 102
\* or 2 when the text keeps its length and by less when it grows.
C8_GainLessGrowth ==
    [][fs' # fs =>
          \A ids \in RunIdentifiers : \A origin \in OriginDirs :
             op'.ident \in ids =>
                /\ HitGain(ids, origin) = (IF WasMatched THEN 2 ELSE 102)
                /\ DistinctGain(ids) = (IF WasMatched THEN 0 ELSE 1)
                /\ ScoreGain(ids, origin) = 1024 * HitGain(ids, origin) - LengthGain
                /\ LengthGain \in {0, Len(op'.ident) + 1}]_vars

\* C8 happens: x.py, which matched foo and bar and not dd, has got a first
\* occurrence of dd, then one more, and has grown
C8_Witness ==
    /\ op.name = "edit"
    /\ op.paths = <<PX>>
    /\ op.ident = w_dd
    /\ CountMatches(w_dd, fs[PX].txt.body) = 2
    /\ CountMatches(w_dd, InitFs[PX].txt.body) = 0
    /\ TextLen(fs[PX].txt) > TextLen(InitFs[PX].txt)

\* ------------------------------------------------------------------------
\*  Properties of the definition extractor
\* ------------------------------------------------------------------------

\* the lines of a text start at 1 and after every newline
LineStarts(t) == {1} \cup {i + 1 : i \in {k \in 1..Len(t) : t[k] = "\n"}}

\* the names Name of the declarations "class Name" that start a line of
\* the text, after blanks if any
DeclaredClasses(t) ==
    {ClassAt(t, SkipSpace(t, i)).name :
        i \in {k \in LineStarts(t) : ClassAt(t, SkipSpace(t, k)).end > 0}}

\* C10, as stated: every file of the Python/Ruby family handed to the
\* composer has, in the definition map the composer extracts from its text,
\* a key for every class declaration that starts a line of the text.
C10_LineClassesAreKeys ==
    op.name = "done" =>
        \A i \in 1..Len(hist.handed) :
           syntax_from_extension(hist.handed[i].path) \in {"python", "ruby"} =>
              DeclaredClasses(hist.handed[i].txt.body) \subseteq
                 SeqRange(extract_definitions(
                     hist.handed[i].txt.body,
                     syntax_from_extension(hist.handed[i].path)).classes)

====
